---- MODULE Spec2Model ----
(***************************************************************************)
(* State-machine model of kimera::DynamicSceneGraph                        *)
(* (kimera_dsg/src/dynamic_scene_graph.cpp).                               *)
(*                                                                         *)
(* The graph is a record g with one field per data member.  Every member   *)
(* function is an operator from a graph (and its arguments) to a result    *)
(* [g |-> graph after the call, ret |-> outcome], outcome being "true",    *)
(* "false", "throw" (an exception left the call: std::out_of_range of a    *)
(* map::at) or "ub" (a null unique_ptr was dereferenced).  A call that     *)
(* throws or faults stops where it is, with the writes made so far.        *)
(* Attribute payloads, timestamps and change markers of local nodes are    *)
(* not part of the state: no operation of this file branches on them.      *)
(***************************************************************************)
EXTENDS Integers, FiniteSets, Sequences, TLC

\* ------------------------------------------------------------------ bounds
MaxNodeId == 2      \* static node ids are 1..MaxNodeId
MaxMeshSize == 1    \* a mesh has 0..MaxMeshSize vertices
MaxMeshIdx == 3     \* next_mesh_edge_idx_ stays <= MaxMeshIdx
MaxDynNodes == 2    \* next_node_ of a dynamic layer stays <= MaxDynNodes
MaxOtherNodes == 1  \* nodes per layer of a graph or layer handed to a merge

\* ------------------------------------------------------- configuration
mesh_layer_id == 1
layer_ids == {2, 3}
UNKNOWN_LAYER == 0
LayerIdSet == {1, 2, 3, 4}          \* layer ids callers pass: mesh, configured, other
DynLayerIdSet == {2, 4}             \* layer ids used for dynamic layers
PrefixSet == {1}                    \* layer prefixes
IndexSpan == 2                      \* ids per prefix (2^56 in NodeSymbol)
NoParent == 0                       \* has_parent_ == false

NodeIdSet == 1..MaxNodeId            \* ids callers give to static nodes
VertexSet == 0..MaxMeshSize         \* vertex indices callers pass
NoMesh == 0 - 1                     \* mesh_vertices_ == nullptr

\* ---------------------------------------------------------------- maps
EmptyMap == [x \in {} |-> 0]
Put(f, k, v) == [x \in (DOMAIN f) \cup {k} |-> IF x = k THEN v ELSE f[x]]
Del(f, k) == [x \in (DOMAIN f) \ {k} |-> f[x]]
Min(S) == CHOOSE x \in S : \A y \in S : x <= y

\* ----------------------------------------------------------- LayerKey
StaticKey(l) == [layer |-> l, prefix |-> 0, dynamic |-> FALSE]
DynamicKey(l, p) == [layer |-> l, prefix |-> p, dynamic |-> TRUE]
UnknownKey == StaticKey(UNKNOWN_LAYER)
KeyValid(k) == k.layer # UNKNOWN_LAYER
KeyEq(a, b) ==
    /\ a.dynamic = b.dynamic
    /\ a.layer = b.layer
    /\ (a.dynamic => a.prefix = b.prefix)
isParent(a, b) == a.layer > b.layer
makeId(p, i) == p * IndexSpan + i
\* every id a caller may name: the static ids and those of dynamic nodes
IdSet == NodeIdSet \cup {makeId(p, i) : p \in PrefixSet, i \in 0..(MaxDynNodes - 1)}

\* ------------------------------------------------------ layers and nodes
NewNode == [parent |-> NoParent, children |-> {}, siblings |-> {}]
hasParent(n) == n.parent # NoParent
NewLayer == [valid |-> TRUE, nodes |-> EmptyMap, edges |-> {}, next_node_ |-> 0]
NullLayer == [valid |-> FALSE, nodes |-> EmptyMap, edges |-> {}, next_node_ |-> 0]

LayerHasNode(L, n) == n \in DOMAIN L.nodes
LayerHasEdge(L, s, t) == {s, t} \in L.edges
LayerEmplaceNode(L, n) ==
    IF LayerHasNode(L, n) THEN [l |-> L, ret |-> FALSE]
    ELSE [l |-> [L EXCEPT !.nodes = Put(L.nodes, n, NewNode)], ret |-> TRUE]
LayerInsertEdge(L, s, t) ==
    IF s = t \/ LayerHasEdge(L, s, t) \/ ~LayerHasNode(L, s) \/ ~LayerHasNode(L, t)
    THEN [l |-> L, ret |-> FALSE]
    ELSE [l |-> [L EXCEPT !.edges = @ \cup {{s, t}}], ret |-> TRUE]
LayerRemoveEdge(L, s, t) ==
    IF ~LayerHasEdge(L, s, t) THEN [l |-> L, ret |-> FALSE]
    ELSE [l |-> [L EXCEPT !.edges = @ \ {{s, t}}], ret |-> TRUE]
LayerRemoveNode(L, n) ==
    IF ~LayerHasNode(L, n) THEN [l |-> L, ret |-> FALSE]
    ELSE [l |-> [L EXCEPT !.nodes = Del(L.nodes, n),
                          !.edges = {e \in @ : n \notin e}],
          ret |-> TRUE]
LayerMergeNodes(L, from, to) ==
    IF ~LayerHasNode(L, from) \/ ~LayerHasNode(L, to) \/ from = to
    THEN [l |-> L, ret |-> FALSE]
    ELSE [l |-> [L EXCEPT
                   !.nodes = Del(L.nodes, from),
                   !.edges = {e \in @ : from \notin e}
                             \cup {{to, x} : x \in {y \in DOMAIN L.nodes :
                                        {from, y} \in L.edges /\ y # from /\ y # to}}],
          ret |-> TRUE]
DynLayerEmplaceNode(L, p, add_edge) ==
    LET id == makeId(p, L.next_node_)
        prev == makeId(p, L.next_node_ - 1)
        link == add_edge /\ L.next_node_ > 0 /\ LayerHasNode(L, prev)
    IN [l |-> [L EXCEPT !.nodes = Put(L.nodes, id, NewNode),
                        !.edges = IF link THEN @ \cup {{prev, id}} ELSE @,
                        !.next_node_ = @ + 1],
        ret |-> TRUE]

\* ------------------------------------------------------------ the graph
VARIABLES layers_, dynamic_layers_, node_lookup_, interlayer_edges_,
          dynamic_interlayer_edges_, mesh_vertices_, mesh_faces_, mesh_edges_,
          mesh_edges_node_lookup_, mesh_edges_vertex_lookup_, next_mesh_edge_idx_,
          crashed, max_assigned_id

vars == <<layers_, dynamic_layers_, node_lookup_, interlayer_edges_,
          dynamic_interlayer_edges_, mesh_vertices_, mesh_faces_, mesh_edges_,
          mesh_edges_node_lookup_, mesh_edges_vertex_lookup_, next_mesh_edge_idx_,
          crashed, max_assigned_id>>

G == [layers_ |-> layers_, dynamic_layers_ |-> dynamic_layers_,
      node_lookup_ |-> node_lookup_, interlayer_edges_ |-> interlayer_edges_,
      dynamic_interlayer_edges_ |-> dynamic_interlayer_edges_,
      mesh_vertices_ |-> mesh_vertices_, mesh_faces_ |-> mesh_faces_,
      mesh_edges_ |-> mesh_edges_,
      mesh_edges_node_lookup_ |-> mesh_edges_node_lookup_,
      mesh_edges_vertex_lookup_ |-> mesh_edges_vertex_lookup_,
      next_mesh_edge_idx_ |-> next_mesh_edge_idx_]

Ok(g) == [g |-> g, ret |-> "true"]
No(g) == [g |-> g, ret |-> "false"]
Throw(g) == [g |-> g, ret |-> "throw"]
Ub(g) == [g |-> g, ret |-> "ub"]
Bool(g, b) == [g |-> g, ret |-> IF b THEN "true" ELSE "false"]
Stopped(r) == r.ret \in {"throw", "ub"}

\* ------------------------------------------------------------- lookups
hasMesh(g) == g.mesh_vertices_ # NoMesh /\ g.mesh_faces_
hasLayer(g, layer_id) ==
    IF layer_id # mesh_layer_id THEN layer_id \in DOMAIN g.layers_ ELSE hasMesh(g)
hasDynamicLayer(g, layer, prefix) == <<layer, prefix>> \in DOMAIN g.dynamic_layers_
hasNode(g, node_id) == node_id \in DOMAIN g.node_lookup_

\* layerFromKey: "ok", or how the two map::at and the dereference fail
layerFromKeyStatus(g, key) ==
    IF key.dynamic
    THEN IF <<key.layer, key.prefix>> \in DOMAIN g.dynamic_layers_ THEN "ok" ELSE "throw"
    ELSE IF key.layer \notin DOMAIN g.layers_ THEN "throw"
         ELSE IF g.layers_[key.layer].valid THEN "ok" ELSE "ub"
layerFromKey(g, key) ==
    IF key.dynamic THEN g.dynamic_layers_[<<key.layer, key.prefix>>]
    ELSE g.layers_[key.layer]
SetLayer(g, key, L) ==
    IF key.dynamic
    THEN [g EXCEPT !.dynamic_layers_ = Put(@, <<key.layer, key.prefix>>, L)]
    ELSE [g EXCEPT !.layers_ = Put(@, key.layer, L)]

getNodePtrStatus(g, node, info) ==
    IF layerFromKeyStatus(g, info) # "ok" THEN layerFromKeyStatus(g, info)
    ELSE IF node \in DOMAIN layerFromKey(g, info).nodes THEN "ok" ELSE "throw"
getNodePtr(g, node, info) == layerFromKey(g, info).nodes[node]
SetNode(g, node, info, rec) ==
    SetLayer(g, info, [layerFromKey(g, info) EXCEPT !.nodes = Put(@, node, rec)])

\* the first failure of two pointer lookups made in sequence
Status2(a, b) == IF a # "ok" THEN a ELSE b
Fail(g, st) == [g |-> g, ret |-> st]

\* ------------------------------------------------------------ ancestry
\* writes through a node pointer
SetParent(g, node, info, p) ==
    SetNode(g, node, info, [getNodePtr(g, node, info) EXCEPT !.parent = p])
SetChildren(g, node, info, add, del) ==
    SetNode(g, node, info,
            [getNodePtr(g, node, info) EXCEPT !.children = (@ \cup add) \ del])
SetSiblings(g, node, info, add, del) ==
    SetNode(g, node, info,
            [getNodePtr(g, node, info) EXCEPT !.siblings = (@ \cup add) \ del])

addAncestryLinks(g, source, target, source_key, target_key) ==
    IF isParent(source_key, target_key)
    THEN IF hasParent(getNodePtr(g, target, target_key)) THEN No(g)
         ELSE Ok(SetParent(SetChildren(g, source, source_key, {target}, {}),
                           target, target_key, source))
    ELSE IF isParent(target_key, source_key)
    THEN IF hasParent(getNodePtr(g, source, source_key)) THEN No(g)
         ELSE Ok(SetParent(SetChildren(g, target, target_key, {source}, {}),
                           source, source_key, target))
    ELSE Ok(SetSiblings(SetSiblings(g, source, source_key, {target}, {}),
                        target, target_key, {source}, {}))

PtrStatus2(g, source, target, source_key, target_key) ==
    Status2(getNodePtrStatus(g, source, source_key),
            getNodePtrStatus(g, target, target_key))

addAncestry(g, source, target, source_key, target_key) ==
    IF PtrStatus2(g, source, target, source_key, target_key) # "ok"
    THEN Fail(g, PtrStatus2(g, source, target, source_key, target_key))
    ELSE addAncestryLinks(g, source, target, source_key, target_key)

removeAncestryLinks(g, source, target, source_key, target_key) ==
    IF isParent(source_key, target_key)
    THEN Ok(SetParent(SetChildren(g, source, source_key, {}, {target}),
                      target, target_key, NoParent))
    ELSE IF isParent(target_key, source_key)
    THEN Ok(SetParent(SetChildren(g, target, target_key, {}, {source}),
                      source, source_key, NoParent))
    ELSE Ok(SetSiblings(SetSiblings(g, source, source_key, {}, {target}),
                        target, target_key, {}, {source}))

removeAncestry(g, source, target, source_key, target_key) ==
    IF PtrStatus2(g, source, target, source_key, target_key) # "ok"
    THEN Fail(g, PtrStatus2(g, source, target, source_key, target_key))
    ELSE removeAncestryLinks(g, source, target, source_key, target_key)

\* ---------------------------------------------------- interlayer edges
\* EdgeContainer::insert / remove on the set the two keys select
InsertInto(g, dynamic, source, target) ==
    IF dynamic
    THEN [g EXCEPT !.dynamic_interlayer_edges_ = @ \cup {{source, target}}]
    ELSE [g EXCEPT !.interlayer_edges_ = @ \cup {{source, target}}]
RemoveFrom(g, dynamic, source, target) ==
    IF dynamic
    THEN [g EXCEPT !.dynamic_interlayer_edges_ = @ \ {{source, target}}]
    ELSE [g EXCEPT !.interlayer_edges_ = @ \ {{source, target}}]
Contains(g, dynamic, source, target) ==
    IF dynamic THEN {source, target} \in g.dynamic_interlayer_edges_
    ELSE {source, target} \in g.interlayer_edges_

\* r: what removeAncestry returned
removeInterlayerEdgeAfter(r, source, target, source_key, target_key) ==
    IF Stopped(r) THEN r
    ELSE Ok(RemoveFrom(r.g, source_key.dynamic \/ target_key.dynamic, source, target))

removeInterlayerEdge(g, source, target, source_key, target_key) ==
    removeInterlayerEdgeAfter(removeAncestry(g, source, target, source_key, target_key),
                              source, target, source_key, target_key)

\* the two-argument overload reads both keys with node_lookup_.at
removeInterlayerEdge2(g, source, target) ==
    IF ~hasNode(g, source) \/ ~hasNode(g, target) THEN Throw(g)
    ELSE removeInterlayerEdge(g, source, target,
                              g.node_lookup_[source], g.node_lookup_[target])

\* -------------------------------------------------------------- edges
\* hasEdge: the answer and the two keys it hands back (unset keys stay unknown)
hasEdgeKeys(g, source, target, sk, tk) ==
    [ret |-> IF KeyEq(sk, tk)
             THEN IF layerFromKeyStatus(g, sk) # "ok" THEN layerFromKeyStatus(g, sk)
                  ELSE IF LayerHasEdge(layerFromKey(g, sk), source, target)
                       THEN "true" ELSE "false"
             ELSE IF Contains(g, sk.dynamic \/ tk.dynamic, source, target)
                  THEN "true" ELSE "false",
     source_key |-> sk, target_key |-> tk]

hasEdge(g, source, target) ==
    IF ~hasNode(g, source) \/ ~hasNode(g, target)
    THEN [ret |-> "false", source_key |-> UnknownKey, target_key |-> UnknownKey]
    ELSE hasEdgeKeys(g, source, target, g.node_lookup_[source], g.node_lookup_[target])

\* r: what the layer's insertEdge / removeEdge returned
LayerResult(g, key, r) == Bool(SetLayer(g, key, r.l), r.ret)

\* a: what addAncestry returned
insertEdgeAfter(a, source, target, dynamic) ==
    IF a.ret # "true" THEN a ELSE Ok(InsertInto(a.g, dynamic, source, target))

\* an insertEdge that drops an interlayer edge it finds (told apart by C11)
insertEdgeOrDrop(g, source, target, h) ==
    IF h.ret = "true" /\ ~KeyEq(h.source_key, h.target_key)
    THEN removeInterlayerEdge(g, source, target, h.source_key, h.target_key)
    ELSE IF h.ret # "false" THEN IF h.ret = "true" THEN No(g) ELSE Fail(g, h.ret)
    ELSE IF ~KeyValid(h.source_key) \/ ~KeyValid(h.target_key) THEN No(g)
    ELSE IF KeyEq(h.source_key, h.target_key)
    THEN LayerResult(g, h.source_key,
                     LayerInsertEdge(layerFromKey(g, h.source_key), source, target))
    ELSE insertEdgeAfter(addAncestry(g, source, target, h.source_key, h.target_key),
                         source, target, h.source_key.dynamic \/ h.target_key.dynamic)

\* h: what hasEdge returned
insertEdgeWith(g, source, target, h) ==
    IF h.ret # "false" THEN IF h.ret = "true" THEN No(g) ELSE Fail(g, h.ret)
    ELSE IF ~KeyValid(h.source_key) \/ ~KeyValid(h.target_key) THEN No(g)
    ELSE IF KeyEq(h.source_key, h.target_key)
    THEN LayerResult(g, h.source_key,
                     LayerInsertEdge(layerFromKey(g, h.source_key), source, target))
    ELSE insertEdgeAfter(addAncestry(g, source, target, h.source_key, h.target_key),
                         source, target, h.source_key.dynamic \/ h.target_key.dynamic)

insertEdge(g, source, target) == insertEdgeWith(g, source, target, hasEdge(g, source, target))

removeEdgeWith(g, source, target, h) ==
    IF h.ret # "true" THEN IF h.ret = "false" THEN No(g) ELSE Fail(g, h.ret)
    ELSE IF ~KeyValid(h.source_key) \/ ~KeyValid(h.target_key) THEN No(g)
    ELSE IF KeyEq(h.source_key, h.target_key)
    THEN LayerResult(g, h.source_key,
                     LayerRemoveEdge(layerFromKey(g, h.source_key), source, target))
    ELSE removeInterlayerEdge(g, source, target, h.source_key, h.target_key)

removeEdge(g, source, target) == removeEdgeWith(g, source, target, hasEdge(g, source, target))

\* r2: what addAncestry returned (its answer is not looked at); then the edge moves
rewireMove(r2, source, target, new_source, new_target, old_dynamic, new_dynamic) ==
    IF Stopped(r2) THEN r2
    ELSE IF ~Contains(r2.g, old_dynamic, source, target) THEN Throw(r2.g)
    ELSE Ok(InsertInto(RemoveFrom(r2.g, old_dynamic, source, target),
                       new_dynamic, new_source, new_target))

\* r1: what removeAncestry returned; h: what hasEdge returned for the new pair
rewireAdd(r1, source, target, new_source, new_target, source_key, target_key, h) ==
    IF Stopped(r1) THEN r1
    ELSE rewireMove(addAncestry(r1.g, new_source, new_target, h.source_key, h.target_key),
                    source, target, new_source, new_target,
                    source_key.dynamic \/ target_key.dynamic,
                    h.source_key.dynamic \/ target_key.dynamic)

rewireWith(g, source, target, new_source, new_target, source_key, target_key, h) ==
    IF Stopped(h) THEN Fail(g, h.ret)
    ELSE IF h.ret = "true"
    THEN removeInterlayerEdge(g, source, target, source_key, target_key)
    ELSE rewireAdd(removeAncestry(g, source, target, source_key, target_key),
                   source, target, new_source, new_target, source_key, target_key, h)

rewireInterlayerEdge(g, source, target, new_source, new_target) ==
    IF source = new_source /\ target = new_target THEN Ok(g)
    ELSE IF ~hasNode(g, source) \/ ~hasNode(g, target) THEN Throw(g)
    ELSE rewireWith(g, source, target, new_source, new_target,
                    g.node_lookup_[source], g.node_lookup_[target],
                    hasEdge(g, new_source, new_target))

\* ---------------------------------------------------------- mesh edges
hasMeshEdge(g, source, mesh_vertex) ==
    /\ source \in DOMAIN g.mesh_edges_node_lookup_
    /\ mesh_vertex \in DOMAIN g.mesh_edges_node_lookup_[source]

Sub(m, k) == IF k \in DOMAIN m THEN m[k] ELSE EmptyMap

insertMeshEdge(g, source, mesh_vertex, allow_invalid_mesh) ==
    IF ~hasNode(g, source) THEN No(g)
    ELSE IF ~allow_invalid_mesh
            /\ (g.mesh_vertices_ = NoMesh \/ mesh_vertex >= g.mesh_vertices_) THEN No(g)
    ELSE IF hasMeshEdge(g, source, mesh_vertex) THEN No(g)
    ELSE Ok([g EXCEPT
               !.mesh_edges_ = IF g.next_mesh_edge_idx_ \in DOMAIN @ THEN @
                               ELSE Put(@, g.next_mesh_edge_idx_,
                                        [source_node |-> source,
                                         mesh_vertex |-> mesh_vertex]),
               !.mesh_edges_node_lookup_ =
                   Put(@, source, Put(Sub(@, source), mesh_vertex, g.next_mesh_edge_idx_)),
               !.mesh_edges_vertex_lookup_ =
                   Put(@, mesh_vertex, Put(Sub(@, mesh_vertex), source, g.next_mesh_edge_idx_)),
               !.next_mesh_edge_idx_ = @ + 1])

\* erase key k2 of the inner map under k, and the entry under k once it is empty
EraseInner(m, k, k2) ==
    IF DOMAIN m[k] = {k2} THEN Del(m, k) ELSE Put(m, k, Del(m[k], k2))

\* a removeMeshEdge that leaves the by-vertex index alone (told apart by C6)
removeMeshEdgeByNodeOnly(g, source, mesh_vertex) ==
    IF ~hasMeshEdge(g, source, mesh_vertex) THEN No(g)
    ELSE Ok([g EXCEPT
               !.mesh_edges_ = Del(@, g.mesh_edges_node_lookup_[source][mesh_vertex]),
               !.mesh_edges_node_lookup_ = EraseInner(@, source, mesh_vertex),
               !.next_mesh_edge_idx_ = @ + 1])

removeMeshEdge(g, source, mesh_vertex) ==
    IF ~hasMeshEdge(g, source, mesh_vertex) THEN No(g)
    ELSE IF mesh_vertex \notin DOMAIN g.mesh_edges_vertex_lookup_
    THEN Throw([g EXCEPT
                  !.mesh_edges_ = Del(@, g.mesh_edges_node_lookup_[source][mesh_vertex]),
                  !.mesh_edges_node_lookup_ = EraseInner(@, source, mesh_vertex)])
    ELSE Ok([g EXCEPT
               !.mesh_edges_ = Del(@, g.mesh_edges_node_lookup_[source][mesh_vertex]),
               !.mesh_edges_node_lookup_ = EraseInner(@, source, mesh_vertex),
               !.mesh_edges_vertex_lookup_ =
                   IF DOMAIN @[mesh_vertex] \subseteq {source} THEN Del(@, mesh_vertex)
                   ELSE Put(@, mesh_vertex, Del(@[mesh_vertex], source)),
               !.next_mesh_edge_idx_ = @ + 1])

clearMeshEdges(g) ==
    [g EXCEPT !.mesh_edges_ = EmptyMap,
              !.mesh_edges_node_lookup_ = EmptyMap,
              !.mesh_edges_vertex_lookup_ = EmptyMap]

\* -------------------------------------------------------------- nodes
\* r: what the layer's emplaceNode returned
emplaceInto(g, layer_id, node_id, r) ==
    IF r.ret
    THEN Ok([g EXCEPT !.layers_ = Put(@, layer_id, r.l),
                      !.node_lookup_ = Put(@, node_id, StaticKey(layer_id))])
    ELSE No(g)

emplaceNode(g, layer_id, node_id) ==
    IF layer_id \notin DOMAIN g.layers_ THEN No(g)
    ELSE IF hasNode(g, node_id) THEN No(g)
    ELSE IF ~g.layers_[layer_id].valid THEN Ub(g)
    ELSE emplaceInto(g, layer_id, node_id, LayerEmplaceNode(g.layers_[layer_id], node_id))

createDynamicLayer(g, layer, layer_prefix) ==
    IF hasDynamicLayer(g, layer, layer_prefix) THEN No(g)
    ELSE Ok([g EXCEPT !.dynamic_layers_ = Put(@, <<layer, layer_prefix>>, NewLayer)])

\* r: what the dynamic layer's emplaceNode returned
emplaceDynamicInto(g, layer, prefix, new_node_id, r) ==
    IF ~r.ret THEN No(g)
    ELSE Ok([g EXCEPT !.dynamic_layers_ = Put(@, <<layer, prefix>>, r.l),
                      !.node_lookup_ = Put(@, new_node_id, DynamicKey(layer, prefix))])

\* a dynamic emplaceNode that also files the link to the previous node as an
\* interlayer edge (told apart by C16)
emplaceDynamicLinkedOutside(g, layer, prefix, new_node_id, add_edge) ==
    emplaceDynamicInto(
        IF add_edge /\ hasNode(g, new_node_id - 1)
        THEN InsertInto(g, TRUE, new_node_id - 1, new_node_id) ELSE g,
        layer, prefix, new_node_id,
        DynLayerEmplaceNode(g.dynamic_layers_[<<layer, prefix>>], prefix, add_edge))

\* g: the graph once the layer exists
emplaceDynamicIn(g, layer, prefix, new_node_id, add_edge) ==
    emplaceDynamicInto(g, layer, prefix, new_node_id,
                       DynLayerEmplaceNode(g.dynamic_layers_[<<layer, prefix>>],
                                           prefix, add_edge))

\* a dynamic emplaceNode that makes the layer before it looks for the id
\* (told apart by C15)
emplaceDynamicNodeLayerFirst(g, layer, prefix, add_edge) ==
    IF hasDynamicLayer(g, layer, prefix)
    THEN IF hasNode(g, makeId(prefix, g.dynamic_layers_[<<layer, prefix>>].next_node_))
         THEN No(g)
         ELSE emplaceDynamicIn(g, layer, prefix,
                               makeId(prefix, g.dynamic_layers_[<<layer, prefix>>].next_node_),
                               add_edge)
    ELSE IF hasNode(g, makeId(prefix, 0)) THEN No(createDynamicLayer(g, layer, prefix).g)
         ELSE emplaceDynamicIn(createDynamicLayer(g, layer, prefix).g, layer, prefix,
                               makeId(prefix, 0), add_edge)

emplaceDynamicNode(g, layer, prefix, add_edge) ==
    IF hasDynamicLayer(g, layer, prefix)
    THEN IF hasNode(g, makeId(prefix, g.dynamic_layers_[<<layer, prefix>>].next_node_))
         THEN No(g)
         ELSE emplaceDynamicIn(g, layer, prefix,
                               makeId(prefix, g.dynamic_layers_[<<layer, prefix>>].next_node_),
                               add_edge)
    ELSE IF hasNode(g, makeId(prefix, 0)) THEN No(g)
         ELSE emplaceDynamicIn(createDynamicLayer(g, layer, prefix).g, layer, prefix,
                               makeId(prefix, 0), add_edge)

\* insertNode of a node object with the given layer and id (is_null: a null pointer)
insertNode(g, is_null, node_layer, node_id) ==
    IF is_null THEN No(g)
    ELSE IF hasNode(g, node_id) THEN No(g)
    ELSE IF ~hasLayer(g, node_layer) THEN No(g)
    ELSE IF node_layer \notin DOMAIN g.layers_
    THEN Ub([g EXCEPT !.layers_ = Put(@, node_layer, NullLayer)])
    ELSE IF ~g.layers_[node_layer].valid THEN Ub(g)
    ELSE emplaceInto(g, node_layer, node_id,
                     LayerEmplaceNode(g.layers_[node_layer], node_id))

\* the loop over the node's mesh-edge vertices, in ascending order
RECURSIVE RemoveMeshEdgesOf(_, _, _)
RemoveMeshEdgesNext(r, node_id, rest) ==
    IF Stopped(r) THEN r ELSE RemoveMeshEdgesOf(r.g, node_id, rest)
RemoveMeshEdgesOf(g, node_id, vertices) ==
    IF vertices = {} THEN Ok(g)
    ELSE RemoveMeshEdgesNext(removeMeshEdge(g, node_id, Min(vertices)),
                             node_id, vertices \ {Min(vertices)})

\* the loop over the copied children
RECURSIVE RemoveChildEdges(_, _, _)
RemoveChildEdgesNext(r, node_id, rest) ==
    IF Stopped(r) THEN r ELSE RemoveChildEdges(r.g, node_id, rest)
RemoveChildEdges(g, node_id, targets) ==
    IF targets = {} THEN Ok(g)
    ELSE RemoveChildEdgesNext(removeInterlayerEdge2(g, node_id, Min(targets)),
                              node_id, targets \ {Min(targets)})

\* r3: after the child edges; the layer drops the node, then the index
removeNodeErase(r3, node_id, info) ==
    IF Stopped(r3) THEN r3
    ELSE Ok([SetLayer(r3.g, info, LayerRemoveNode(layerFromKey(r3.g, info), node_id).l)
               EXCEPT !.node_lookup_ = Del(@, node_id)])

\* r2: after the parent edge; node->children_ is copied now
removeNodeChildren(r2, node_id, info) ==
    IF Stopped(r2) THEN r2
    ELSE removeNodeErase(RemoveChildEdges(r2.g, node_id,
                                          getNodePtr(r2.g, node_id, info).children),
                         node_id, info)

\* r1: after the mesh edges
removeNodeParent(r1, node_id, info) ==
    IF Stopped(r1) THEN r1
    ELSE IF getNodePtrStatus(r1.g, node_id, info) # "ok"
    THEN Fail(r1.g, getNodePtrStatus(r1.g, node_id, info))
    ELSE removeNodeChildren(
             IF hasParent(getNodePtr(r1.g, node_id, info))
             THEN removeInterlayerEdge2(r1.g, node_id,
                                        getNodePtr(r1.g, node_id, info).parent)
             ELSE Ok(r1.g),
             node_id, info)

removeNode(g, node_id) ==
    IF ~hasNode(g, node_id) THEN No(g)
    ELSE removeNodeParent(
             IF node_id \in DOMAIN g.mesh_edges_node_lookup_
             THEN RemoveMeshEdgesOf(g, node_id, DOMAIN g.mesh_edges_node_lookup_[node_id])
             ELSE Ok(g),
             node_id, g.node_lookup_[node_id])

\* the loop over the copied children
RECURSIVE RewireChildren(_, _, _, _)
RewireChildrenNext(r, node_from, node_to, rest) ==
    IF Stopped(r) THEN r ELSE RewireChildren(r.g, node_from, node_to, rest)
RewireChildren(g, node_from, node_to, targets) ==
    IF targets = {} THEN Ok(g)
    ELSE RewireChildrenNext(
             rewireInterlayerEdge(g, node_from, Min(targets), node_to, Min(targets)),
             node_from, node_to, targets \ {Min(targets)})

\* r2: after the children; the layer merges the nodes, then the index
mergeNodesErase(r2, node_from, node_to, layer) ==
    IF Stopped(r2) THEN r2
    ELSE Ok([r2.g EXCEPT
               !.layers_ = Put(@, layer, LayerMergeNodes(@[layer], node_from, node_to).l),
               !.node_lookup_ = Del(@, node_from)])

\* r1: after the parent edge; node->children_ is copied now
mergeNodesChildren(r1, node_from, node_to, layer) ==
    IF Stopped(r1) THEN r1
    ELSE mergeNodesErase(
             RewireChildren(r1.g, node_from, node_to,
                            IF node_from \in DOMAIN r1.g.layers_[layer].nodes
                            THEN r1.g.layers_[layer].nodes[node_from].children
                            ELSE {}),
             node_from, node_to, layer)

\* node: layers_[info.layer]->nodes_.at(node_from)
mergeNodesOf(g, node_from, node_to, layer, node) ==
    mergeNodesChildren(
        IF hasParent(node)
        THEN rewireInterlayerEdge(g, node_from, node.parent, node_to, node.parent)
        ELSE Ok(g),
        node_from, node_to, layer)

\* a mergeNodes that does not compare the two keys (told apart by C12)
mergeNodesAnyKey(g, node_from, node_to) ==
    IF ~hasNode(g, node_from) \/ ~hasNode(g, node_to) THEN No(g)
    ELSE IF node_from = node_to THEN No(g)
    ELSE IF g.node_lookup_[node_from].layer \notin DOMAIN g.layers_
    THEN Ub([g EXCEPT !.layers_ = Put(@, g.node_lookup_[node_from].layer, NullLayer)])
    ELSE IF ~g.layers_[g.node_lookup_[node_from].layer].valid THEN Ub(g)
    ELSE IF node_from \notin DOMAIN g.layers_[g.node_lookup_[node_from].layer].nodes
    THEN Throw(g)
    ELSE mergeNodesOf(g, node_from, node_to, g.node_lookup_[node_from].layer,
                      g.layers_[g.node_lookup_[node_from].layer].nodes[node_from])

mergeNodes(g, node_from, node_to) ==
    IF ~hasNode(g, node_from) \/ ~hasNode(g, node_to) THEN No(g)
    ELSE IF node_from = node_to THEN No(g)
    ELSE IF ~KeyEq(g.node_lookup_[node_from], g.node_lookup_[node_to]) THEN No(g)
    ELSE IF g.node_lookup_[node_from].layer \notin DOMAIN g.layers_
    THEN Ub([g EXCEPT !.layers_ = Put(@, g.node_lookup_[node_from].layer, NullLayer)])
    ELSE IF ~g.layers_[g.node_lookup_[node_from].layer].valid THEN Ub(g)
    ELSE IF node_from \notin DOMAIN g.layers_[g.node_lookup_[node_from].layer].nodes
    THEN Throw(g)
    ELSE mergeNodesOf(g, node_from, node_to, g.node_lookup_[node_from].layer,
                      g.layers_[g.node_lookup_[node_from].layer].nodes[node_from])

\* --------------------------------------------------------------- mesh
setMeshDirectly(g, num_vertices) ==
    Ok([g EXCEPT !.mesh_vertices_ = num_vertices, !.mesh_faces_ = TRUE])

\* the entries strictly beyond max_vertex (told apart by C7)
InvalidEntriesAbove(g, max_vertex) ==
    UNION {{<<v, n>> : n \in DOMAIN g.mesh_edges_vertex_lookup_[v]} :
               v \in {w \in DOMAIN g.mesh_edges_vertex_lookup_ : w > max_vertex}}

\* the (vertex, node) entries of the by-vertex index at or beyond max_vertex
InvalidEntries(g, max_vertex) ==
    UNION {{<<v, n>> : n \in DOMAIN g.mesh_edges_vertex_lookup_[v]} :
               v \in {w \in DOMAIN g.mesh_edges_vertex_lookup_ : w >= max_vertex}}

MinEntry(P) ==
    CHOOSE x \in P : \A y \in P : x[1] < y[1] \/ (x[1] = y[1] /\ x[2] <= y[2])

\* the loop over invalid_edges: the MeshEdge of every entry, in iteration order
RECURSIVE RemoveInvalidEdges(_, _, _, _)
RemoveInvalidEdgesNext(r, rest, edges0, index0) ==
    IF Stopped(r) THEN r ELSE RemoveInvalidEdges(r.g, rest, edges0, index0)
RemoveInvalidEdgeAt(g, x, entries, edges0, index0) ==
    RemoveInvalidEdgesNext(
        removeMeshEdge(g, edges0[index0[x[1]][x[2]]].source_node,
                       edges0[index0[x[1]][x[2]]].mesh_vertex),
        entries \ {x}, edges0, index0)
RemoveInvalidEdges(g, entries, edges0, index0) ==
    IF entries = {} THEN Ok(g)
    ELSE RemoveInvalidEdgeAt(g, MinEntry(entries), entries, edges0, index0)

\* g: after the two pointers were assigned
setMeshEdges(g, entries) ==
    IF \E x \in entries :
           g.mesh_edges_vertex_lookup_[x[1]][x[2]] \notin DOMAIN g.mesh_edges_
    THEN Throw(g)
    ELSE RemoveInvalidEdges(g, entries, g.mesh_edges_, g.mesh_edges_vertex_lookup_)

\* setMesh(vertices, faces, invalidate_all_edges); num_vertices = NoMesh: null vertices
setMesh(g, num_vertices, has_faces, invalidate_all_edges) ==
    IF num_vertices = NoMesh
    THEN Ok(clearMeshEdges([g EXCEPT !.mesh_vertices_ = NoMesh, !.mesh_faces_ = FALSE]))
    ELSE IF invalidate_all_edges
    THEN Ok(clearMeshEdges([g EXCEPT !.mesh_faces_ = has_faces,
                                     !.mesh_vertices_ = num_vertices]))
    ELSE setMeshEdges([g EXCEPT !.mesh_faces_ = has_faces, !.mesh_vertices_ = num_vertices],
                      InvalidEntries(g, num_vertices))

\* the loop over the copied nodes of one vertex
RECURSIVE RemoveVertexEdges(_, _, _)
RemoveVertexEdgesNext(r, index, rest) ==
    IF Stopped(r) THEN r ELSE RemoveVertexEdges(r.g, index, rest)
RemoveVertexEdges(g, index, nodes) ==
    IF nodes = {} THEN Ok(g)
    ELSE RemoveVertexEdgesNext(removeMeshEdge(g, Min(nodes), index),
                               index, nodes \ {Min(nodes)})

invalidateMeshVertex(g, index) ==
    IF index \notin DOMAIN g.mesh_edges_vertex_lookup_ THEN Ok(g)
    ELSE RemoveVertexEdges(g, index, DOMAIN g.mesh_edges_vertex_lookup_[index])

\* -------------------------------------------------------------- clear
\* a clear that also restarts the edge ids (told apart by C9)
clearAndRestartIds(g) ==
    Ok([clearMeshEdges(g) EXCEPT !.layers_ = [id \in layer_ids |-> NewLayer],
                                 !.dynamic_layers_ = EmptyMap,
                                 !.node_lookup_ = EmptyMap,
                                 !.interlayer_edges_ = {},
                                 !.dynamic_interlayer_edges_ = {},
                                 !.mesh_vertices_ = NoMesh,
                                 !.mesh_faces_ = FALSE,
                                 !.next_mesh_edge_idx_ = 0])

\* a clear that leaves the dynamic interlayer edges (told apart by C18)
clearStaticOnly(g) ==
    Ok(clearMeshEdges([g EXCEPT !.layers_ = [id \in layer_ids |-> NewLayer],
                                !.dynamic_layers_ = EmptyMap,
                                !.node_lookup_ = EmptyMap,
                                !.interlayer_edges_ = {},
                                !.mesh_vertices_ = NoMesh,
                                !.mesh_faces_ = FALSE]))

clear(g) ==
    Ok(clearMeshEdges([g EXCEPT !.layers_ = [id \in layer_ids |-> NewLayer],
                                !.dynamic_layers_ = EmptyMap,
                                !.node_lookup_ = EmptyMap,
                                !.interlayer_edges_ = {},
                                !.dynamic_interlayer_edges_ = {},
                                !.mesh_vertices_ = NoMesh,
                                !.mesh_faces_ = FALSE]))

\* -------------------------------------------------------------- counts
RECURSIVE SumOver(_, _, _)
SumOver(f, keys, field) ==
    IF keys = {} THEN 0
    ELSE Cardinality(IF field = "nodes" THEN DOMAIN f[CHOOSE k \in keys : TRUE].nodes
                     ELSE f[CHOOSE k \in keys : TRUE].edges)
             + SumOver(f, keys \ {CHOOSE k \in keys : TRUE}, field)

numDynamicNodes(g) == SumOver(g.dynamic_layers_, DOMAIN g.dynamic_layers_, "nodes")
numNodes(g) ==
    SumOver(g.layers_, DOMAIN g.layers_, "nodes") + numDynamicNodes(g)
        + (IF g.mesh_vertices_ = NoMesh THEN 0 ELSE g.mesh_vertices_)
numEdges(g) ==
    Cardinality(g.interlayer_edges_) + SumOver(g.layers_, DOMAIN g.layers_, "edges")
        + SumOver(g.dynamic_layers_, DOMAIN g.dynamic_layers_, "edges")
        + Cardinality(DOMAIN g.mesh_edges_) + Cardinality(g.dynamic_interlayer_edges_)

\* ---------------------------------------------------- updateFromLayer
\* other_layer: [id, nodes (a set of ids)]; edges: a set of {source, target}
\* a node loop that puts the incoming node in place of the one the layer has
\* (told apart by C19)
UpdateNodesReplacing(g, layer_id, nodes) ==
    [g EXCEPT
       !.node_lookup_ =
           [x \in (DOMAIN @) \cup (nodes \ DOMAIN g.layers_[layer_id].nodes) |->
               IF x \in nodes \ DOMAIN g.layers_[layer_id].nodes
               THEN StaticKey(layer_id) ELSE @[x]],
       !.layers_ = Put(@, layer_id,
           [@[layer_id] EXCEPT !.nodes =
               [x \in (DOMAIN @) \cup nodes |-> IF x \in nodes THEN NewNode ELSE @[x]]])]

\* the node loop: nodes the layer lacks are adopted and indexed, whatever the
\* index said before
UpdateNodes(g, layer_id, nodes) ==
    [g EXCEPT
       !.node_lookup_ =
           [x \in (DOMAIN @) \cup (nodes \ DOMAIN g.layers_[layer_id].nodes) |->
               IF x \in nodes \ DOMAIN g.layers_[layer_id].nodes
               THEN StaticKey(layer_id) ELSE @[x]],
       !.layers_ = Put(@, layer_id,
           [@[layer_id] EXCEPT !.nodes =
               [x \in (DOMAIN @) \cup nodes |-> IF x \in DOMAIN @ THEN @[x] ELSE NewNode]])]

EdgeSource(e) == Min(e)
EdgeTarget(e) == IF Cardinality(e) = 1 THEN Min(e) ELSE Min(e \ {Min(e)})
MinEdge(E) ==
    CHOOSE e \in E : \A f \in E :
        \/ EdgeSource(e) < EdgeSource(f)
        \/ (EdgeSource(e) = EdgeSource(f) /\ EdgeTarget(e) <= EdgeTarget(f))

\* the edge loop
RECURSIVE LayerInsertEdges(_, _)
LayerInsertEdgeAt(L, e, edges) ==
    LayerInsertEdges(LayerInsertEdge(L, EdgeSource(e), EdgeTarget(e)).l, edges \ {e})
LayerInsertEdges(L, edges) ==
    IF edges = {} THEN L ELSE LayerInsertEdgeAt(L, MinEdge(edges), edges)

\* g1: after the node loop
updateEdges(g1, layer_id, edges) ==
    Ok([g1 EXCEPT !.layers_ = Put(@, layer_id, LayerInsertEdges(@[layer_id], edges))])

updateFromLayer(g, other_layer, edges) ==
    IF other_layer.id \notin DOMAIN g.layers_ THEN No(g)
    ELSE IF ~g.layers_[other_layer.id].valid THEN Ub(g)
    ELSE updateEdges(UpdateNodes(g, other_layer.id, other_layer.nodes),
                     other_layer.id, edges)

\* the ids whose nodes_status_ the node loop sets to NEW
updateFromLayerNew(g, other_layer) ==
    IF other_layer.id \notin DOMAIN g.layers_ THEN {}
    ELSE other_layer.nodes \ DOMAIN g.layers_[other_layer.id].nodes
\* other_layer as the call leaves it
updateFromLayerOther(g, other_layer) ==
    IF other_layer.id \notin DOMAIN g.layers_ THEN other_layer
    ELSE [other_layer EXCEPT !.nodes = {}]

\* --------------------------------------------------------- mergeGraph
\* The other graph: [layers: layer id -> [nodes, removed, edges],
\*  dynamic_layers: <<layer, prefix>> -> [next_node_], interlayer_edges,
\*  dynamic_interlayer_edges, mesh_edges: [source_node, mesh_vertex] in id order].
\* update_map and update_dynamic only choose whether attributes are copied.
LookupInsert(lookup, ids, key) ==
    [x \in (DOMAIN lookup) \cup ids |-> IF x \in DOMAIN lookup THEN lookup[x] ELSE key]
AddNodes(nodes, fresh) ==
    [x \in (DOMAIN nodes) \cup fresh |-> IF x \in DOMAIN nodes THEN nodes[x] ELSE NewNode]

\* SceneGraphLayer::mergeLayer(other_layer, &node_lookup_, update)
LayerMergeLayer(g, layer, other_layer) ==
    [g EXCEPT
       !.layers_ = Put(@, layer,
           LayerInsertEdges([@[layer] EXCEPT !.nodes = AddNodes(@, other_layer.nodes)],
                            other_layer.edges)),
       !.node_lookup_ = LookupInsert(@, other_layer.nodes \ DOMAIN g.layers_[layer].nodes,
                                     StaticKey(layer))]

\* DynamicSceneGraphLayer::mergeLayer(other_layer, &node_lookup_, update_dynamic)
DynFresh(L, prefix, other_layer) ==
    {makeId(prefix, i) : i \in L.next_node_..(other_layer.next_node_ - 1)}
DynLayerMergeLayer(g, layer, prefix, other_layer) ==
    [g EXCEPT
       !.dynamic_layers_ = Put(@, <<layer, prefix>>,
           [@[<<layer, prefix>>] EXCEPT
              !.nodes = [x \in (DOMAIN @)
                               \cup DynFresh(g.dynamic_layers_[<<layer, prefix>>],
                                             prefix, other_layer) |->
                            IF x \in DynFresh(g.dynamic_layers_[<<layer, prefix>>],
                                              prefix, other_layer)
                            THEN NewNode ELSE @[x]],
              !.next_node_ = IF other_layer.next_node_ > @
                             THEN other_layer.next_node_ ELSE @]),
       !.node_lookup_ = LookupInsert(@, DynFresh(g.dynamic_layers_[<<layer, prefix>>],
                                                 prefix, other_layer),
                                     DynamicKey(layer, prefix))]

MinKey(keys) ==
    CHOOSE x \in keys : \A y \in keys : x[1] < y[1] \/ (x[1] = y[1] /\ x[2] <= y[2])

\* the loop over other.dynamicLayers()
RECURSIVE MergeDynamicLayers(_, _, _)
MergeDynamicLayerAt(g, other, k, keys) ==
    MergeDynamicLayers(
        DynLayerMergeLayer(IF hasDynamicLayer(g, k[1], k[2]) THEN g
                           ELSE createDynamicLayer(g, k[1], k[2]).g,
                           k[1], k[2], other.dynamic_layers[k]),
        other, keys \ {k})
MergeDynamicLayers(g, other, keys) ==
    IF keys = {} THEN g ELSE MergeDynamicLayerAt(g, other, MinKey(keys), keys)

RECURSIVE Ascending(_)
Ascending(S) == IF S = {} THEN <<>> ELSE <<Min(S)>> \o Ascending(S \ {Min(S)})

\* the loop over other.layers(): the graph and the removed ids collected so far
RECURSIVE MergeStaticLayers(_, _, _, _)
MergeStaticLayerAt(g, other, layer, ids, removed) ==
    IF ~hasLayer(g, layer) THEN MergeStaticLayers(g, other, ids \ {layer}, removed)
    ELSE IF layer \notin DOMAIN g.layers_
    THEN [g |-> [g EXCEPT !.layers_ = Put(@, layer, NullLayer)],
          ret |-> "ub", removed |-> removed]
    ELSE IF ~g.layers_[layer].valid
    THEN [g |-> g, ret |-> "ub", removed |-> removed]
    ELSE MergeStaticLayers(LayerMergeLayer(g, layer, other.layers[layer]), other,
                           ids \ {layer},
                           removed \o Ascending(other.layers[layer].removed))
MergeStaticLayers(g, other, ids, removed) ==
    IF ids = {} THEN [g |-> g, ret |-> "true", removed |-> removed]
    ELSE MergeStaticLayerAt(g, other, Min(ids), ids, removed)

\* the loop over removed_nodes
RECURSIVE RemoveNodes(_, _)
RemoveNodesNext(r, rest) == IF Stopped(r) THEN r ELSE RemoveNodes(r.g, rest)
RemoveNodes(g, ids) ==
    IF ids = <<>> THEN Ok(g) ELSE RemoveNodesNext(removeNode(g, Head(ids)), Tail(ids))

\* the loops over the other graph's two interlayer containers
RECURSIVE InsertEdges(_, _)
InsertEdgesNext(r, rest) == IF Stopped(r) THEN r ELSE InsertEdges(r.g, rest)
InsertEdgeAt(g, e, edges) ==
    InsertEdgesNext(insertEdge(g, EdgeSource(e), EdgeTarget(e)), edges \ {e})
InsertEdges(g, edges) ==
    IF edges = {} THEN Ok(g) ELSE InsertEdgeAt(g, MinEdge(edges), edges)

\* the loop over other.mesh_edges_
RECURSIVE InsertMeshEdges(_, _, _)
InsertMeshEdges(g, edges, allow_invalid_mesh) ==
    IF edges = <<>> THEN g
    ELSE InsertMeshEdges(insertMeshEdge(g, Head(edges).source_node,
                                        Head(edges).mesh_vertex, allow_invalid_mesh).g,
                         Tail(edges), allow_invalid_mesh)

\* r5: after both edge loops
mergeMesh(r5, other, allow_invalid_mesh, clear_mesh_edges) ==
    IF Stopped(r5) THEN r5
    ELSE Ok(InsertMeshEdges(IF clear_mesh_edges THEN clearMeshEdges(r5.g) ELSE r5.g,
                            other.mesh_edges, allow_invalid_mesh))

\* r4: after the static interlayer edges
mergeDynamicEdges(r4, other, allow_invalid_mesh, clear_mesh_edges) ==
    IF Stopped(r4) THEN r4
    ELSE mergeMesh(InsertEdges(r4.g, other.dynamic_interlayer_edges),
                   other, allow_invalid_mesh, clear_mesh_edges)

\* r3: after the removed nodes
mergeEdges(r3, other, allow_invalid_mesh, clear_mesh_edges) ==
    IF Stopped(r3) THEN r3
    ELSE mergeDynamicEdges(InsertEdges(r3.g, other.interlayer_edges),
                           other, allow_invalid_mesh, clear_mesh_edges)

\* r2: after the static layers
mergeRemoved(r2, other, allow_invalid_mesh, clear_mesh_edges) ==
    IF Stopped(r2) THEN [g |-> r2.g, ret |-> r2.ret]
    ELSE mergeEdges(RemoveNodes(r2.g, r2.removed),
                    other, allow_invalid_mesh, clear_mesh_edges)

mergeGraph(g, other, allow_invalid_mesh, clear_mesh_edges) ==
    mergeRemoved(MergeStaticLayers(MergeDynamicLayers(g, other, DOMAIN other.dynamic_layers),
                                   other, DOMAIN other.layers, <<>>),
                 other, allow_invalid_mesh, clear_mesh_edges)

\* ------------------------------------------------------- state machine
Init ==
    /\ layers_ = [id \in layer_ids |-> NewLayer]
    /\ dynamic_layers_ = EmptyMap
    /\ node_lookup_ = EmptyMap
    /\ interlayer_edges_ = {}
    /\ dynamic_interlayer_edges_ = {}
    /\ mesh_vertices_ = NoMesh
    /\ mesh_faces_ = FALSE
    /\ mesh_edges_ = EmptyMap
    /\ mesh_edges_node_lookup_ = EmptyMap
    /\ mesh_edges_vertex_lookup_ = EmptyMap
    /\ next_mesh_edge_idx_ = 0
    /\ crashed = FALSE
    /\ max_assigned_id = 0 - 1

MaxOf(S, d) == IF S = {} THEN d ELSE CHOOSE x \in S : \A y \in S : y <= x

\* every edge id the by-node index of g holds
IndexedIds(g) ==
    UNION {{g.mesh_edges_node_lookup_[n][v] : v \in DOMAIN g.mesh_edges_node_lookup_[n]} :
               n \in DOMAIN g.mesh_edges_node_lookup_}

WithinBounds(g) ==
    /\ g.next_mesh_edge_idx_ <= MaxMeshIdx
    /\ \A k \in DOMAIN g.dynamic_layers_ : g.dynamic_layers_[k].next_node_ <= MaxDynNodes

\* the call returned r: the members take the values of r.g
Apply(r) ==
    /\ ~crashed
    /\ WithinBounds(r.g)
    /\ layers_' = r.g.layers_
    /\ dynamic_layers_' = r.g.dynamic_layers_
    /\ node_lookup_' = r.g.node_lookup_
    /\ interlayer_edges_' = r.g.interlayer_edges_
    /\ dynamic_interlayer_edges_' = r.g.dynamic_interlayer_edges_
    /\ mesh_vertices_' = r.g.mesh_vertices_
    /\ mesh_faces_' = r.g.mesh_faces_
    /\ mesh_edges_' = r.g.mesh_edges_
    /\ mesh_edges_node_lookup_' = r.g.mesh_edges_node_lookup_
    /\ mesh_edges_vertex_lookup_' = r.g.mesh_edges_vertex_lookup_
    /\ next_mesh_edge_idx_' = r.g.next_mesh_edge_idx_
    /\ crashed' = (r.ret = "ub")
    /\ max_assigned_id' = MaxOf(IndexedIds(r.g) \cup {max_assigned_id}, max_assigned_id)

EdgeSets == {{}} \cup {{{s, t}} : s, t \in NodeIdSet}
OtherLayers ==
    {[id |-> l, nodes |-> ns] :
        l \in LayerIdSet, ns \in {x \in SUBSET NodeIdSet : Cardinality(x) <= MaxOtherNodes}}

\* graphs handed to mergeGraph: each has the configured layers and one feature
OtherLayer(ns, rs) == [nodes |-> ns, removed |-> rs, edges |-> {}]
OtherConfig(ls) == [l \in layer_ids \cup ls |-> OtherLayer({}, {})]
EmptyOther ==
    [layers |-> OtherConfig({}), dynamic_layers |-> EmptyMap, interlayer_edges |-> {},
     dynamic_interlayer_edges |-> {}, mesh_edges |-> <<>>]
NodeSets == {x \in SUBSET NodeIdSet : 1 <= Cardinality(x) /\ Cardinality(x) <= MaxOtherNodes}
\* nodes in one layer, with or without a mesh edge of one of them
OtherWithNodes ==
    UNION {{[EmptyOther EXCEPT
               !.layers = Put(OtherConfig({l}), l, OtherLayer(ns, {})),
               !.mesh_edges = m] :
              m \in {<<>>} \cup {<<[source_node |-> n, mesh_vertex |-> v]>> :
                                      n \in ns, v \in VertexSet}} :
           l \in LayerIdSet, ns \in NodeSets}
\* a layer that reports removed nodes
OtherWithRemoved ==
    {[EmptyOther EXCEPT !.layers = Put(OtherConfig({l}), l, OtherLayer({}, rs))] :
        l \in LayerIdSet, rs \in NodeSets}
\* a dynamic layer of k nodes
OtherWithDynamic ==
    {[EmptyOther EXCEPT !.dynamic_layers = Put(EmptyMap, <<l, p>>, [next_node_ |-> k])] :
        l \in DynLayerIdSet, p \in PrefixSet, k \in 1..MaxDynNodes}
\* a static node joined to the first node of a dynamic layer
OtherWithDynamicEdge ==
    {[EmptyOther EXCEPT
        !.layers = Put(OtherConfig({}), sl, OtherLayer({n}, {})),
        !.dynamic_layers = Put(EmptyMap, <<l, p>>, [next_node_ |-> 1]),
        !.dynamic_interlayer_edges = {{n, makeId(p, 0)}}] :
        sl \in layer_ids, n \in NodeIdSet \ {makeId(q, 0) : q \in PrefixSet},
        l \in DynLayerIdSet, p \in PrefixSet}
\* two static nodes of different layers joined by an edge
OtherWithEdge ==
    {[EmptyOther EXCEPT
        !.layers = [l \in layer_ids |->
                      IF l = ls[1] THEN OtherLayer({ns[1]}, {})
                      ELSE IF l = ls[2] THEN OtherLayer({ns[2]}, {})
                      ELSE OtherLayer({}, {})],
        !.interlayer_edges = {{ns[1], ns[2]}}] :
        ls \in {x \in layer_ids \X layer_ids : x[1] # x[2]},
        ns \in {x \in NodeIdSet \X NodeIdSet : x[1] # x[2]}}
\* a node one layer holds and another layer reports removed
OtherWithMoved ==
    {[EmptyOther EXCEPT
        !.layers = [l \in layer_ids |->
                      IF l = ls[1] THEN OtherLayer({n}, {})
                      ELSE IF l = ls[2] THEN OtherLayer({}, {n})
                      ELSE OtherLayer({}, {})]] :
        ls \in {x \in layer_ids \X layer_ids : x[1] # x[2]}, n \in NodeIdSet}
OtherGraphs ==
    OtherWithNodes \cup OtherWithRemoved \cup OtherWithDynamic
        \cup OtherWithDynamicEdge \cup OtherWithEdge

\* a second prefix, for nodes whose keys differ in the prefix only
WidePrefixSet == PrefixSet \cup {2}
WideIdSet == IdSet \cup {makeId(p, i) : p \in WidePrefixSet, i \in 0..(MaxDynNodes - 1)}

EmplaceNode ==
    \E layer_id \in LayerIdSet, node_id \in NodeIdSet :
        Apply(emplaceNode(G, layer_id, node_id))
EmplaceDynamicNodeOf(prefixes) ==
    \E layer \in DynLayerIdSet, prefix \in prefixes, add_edge \in BOOLEAN :
        Apply(emplaceDynamicNode(G, layer, prefix, add_edge))
EmplaceDynamicNode == EmplaceDynamicNodeOf(PrefixSet)
EmplaceDynamicNodeWide == EmplaceDynamicNodeOf(WidePrefixSet)
InsertNode ==
    \E is_null \in BOOLEAN, node_layer \in LayerIdSet, node_id \in NodeIdSet :
        Apply(insertNode(G, is_null, node_layer, node_id))
RemoveNode ==
    \E node_id \in IdSet : Apply(removeNode(G, node_id))
InsertEdge ==
    \E source, target \in IdSet : Apply(insertEdge(G, source, target))
InsertEdgeWide ==
    \E source, target \in WideIdSet : Apply(insertEdge(G, source, target))
RemoveEdge ==
    \E source, target \in IdSet : Apply(removeEdge(G, source, target))
MergeNodesOf(ids) ==
    \E node_from, node_to \in ids : Apply(mergeNodes(G, node_from, node_to))
MergeNodes == MergeNodesOf(IdSet)
MergeNodesWide == MergeNodesOf(WideIdSet)
InsertMeshEdge ==
    \E source \in IdSet, mesh_vertex \in VertexSet, allow_invalid_mesh \in BOOLEAN :
        Apply(insertMeshEdge(G, source, mesh_vertex, allow_invalid_mesh))
RemoveMeshEdge ==
    \E source \in IdSet, mesh_vertex \in VertexSet :
        Apply(removeMeshEdge(G, source, mesh_vertex))
InvalidateMeshVertex ==
    \E index \in VertexSet : Apply(invalidateMeshVertex(G, index))
SetMesh ==
    \E num_vertices \in {NoMesh} \cup (0..MaxMeshSize), has_faces \in BOOLEAN,
       invalidate_all_edges \in BOOLEAN :
        Apply(setMesh(G, num_vertices, has_faces, invalidate_all_edges))
SetMeshDirectly ==
    \E num_vertices \in 0..MaxMeshSize : Apply(setMeshDirectly(G, num_vertices))
UpdateFromLayer ==
    \E other_layer \in OtherLayers, edges \in EdgeSets :
        Apply(updateFromLayer(G, other_layer, edges))
MergeGraphOf(others, flags) ==
    \E other \in others, allow_invalid_mesh \in flags, clear_mesh_edges \in flags :
        Apply(mergeGraph(G, other, allow_invalid_mesh, clear_mesh_edges))
MergeGraph == MergeGraphOf(OtherGraphs, BOOLEAN)
\* without mesh edges the two flags change nothing
MergeGraphNodes == MergeGraphOf(OtherWithRemoved \cup OtherWithDynamic, {FALSE})
MergeGraphMesh == MergeGraphOf(OtherWithNodes \cup OtherWithRemoved, BOOLEAN)
\* graphs whose layers may have this graph's mesh layer id or an unknown id
MergeGraphLayers ==
    MergeGraphOf({o \in OtherWithNodes : o.mesh_edges = <<>>} \cup OtherWithRemoved, {FALSE})
MergeGraphEdges ==
    MergeGraphOf(OtherWithRemoved \cup OtherWithDynamicEdge \cup OtherWithEdge, {FALSE})
Clear == Apply(clear(G))

Next ==
    \/ EmplaceNode
    \/ EmplaceDynamicNode
    \/ InsertNode
    \/ RemoveNode
    \/ InsertEdge
    \/ RemoveEdge
    \/ MergeNodes
    \/ InsertMeshEdge
    \/ RemoveMeshEdge
    \/ InvalidateMeshVertex
    \/ SetMesh
    \/ SetMeshDirectly
    \/ UpdateFromLayer
    \/ MergeGraph
    \/ Clear

Spec == Init /\ [][Next]_vars

\* node operations only
NextNodes ==
    \/ EmplaceNode
    \/ EmplaceDynamicNode
    \/ InsertNode
    \/ RemoveNode
    \/ MergeNodes
    \/ UpdateFromLayer
    \/ MergeGraphNodes
    \/ Clear
SpecNodes == Init /\ [][NextNodes]_vars

\* node creation and removal, and the operations on edges and ancestry
NextEdges ==
    \/ EmplaceNode
    \/ EmplaceDynamicNode
    \/ RemoveNode
    \/ InsertEdge
    \/ RemoveEdge
    \/ MergeNodes
    \/ Clear
SpecEdges == Init /\ [][NextEdges]_vars

\* node creation and the operations on the mesh and its edges
NextMesh ==
    \/ EmplaceNode
    \/ RemoveNode
    \/ MergeNodes
    \/ InsertMeshEdge
    \/ RemoveMeshEdge
    \/ InvalidateMeshVertex
    \/ SetMesh
    \/ SetMeshDirectly
    \/ MergeGraphMesh
    \/ Clear
SpecMesh == Init /\ [][NextMesh]_vars

\* node creation, edges, and merges that bring edges or remove nodes
NextMerge ==
    \/ EmplaceNode
    \/ EmplaceDynamicNode
    \/ InsertEdge
    \/ MergeGraphEdges
SpecMerge == Init /\ [][NextMerge]_vars

\* nodes under two prefixes, edges between them, and mergeNodes
NextMergeNodes ==
    \/ EmplaceNode
    \/ EmplaceDynamicNodeWide
    \/ RemoveNode
    \/ InsertEdge
    \/ MergeNodesWide
SpecMergeNodes == Init /\ [][NextMergeNodes]_vars

\* static nodes, the mesh, and the operations that index layers_ by a layer id
NextLayers ==
    \/ EmplaceNode
    \/ InsertNode
    \/ RemoveNode
    \/ MergeNodes
    \/ SetMeshDirectly
    \/ MergeGraphLayers
    \/ Clear
SpecLayers == Init /\ [][NextLayers]_vars

\* everything clear() has to take away: nodes, edges, a mesh and its edges
NextClear ==
    \/ EmplaceNode
    \/ EmplaceDynamicNode
    \/ InsertEdge
    \/ InsertMeshEdge
    \/ SetMeshDirectly
    \/ Clear
SpecClear == Init /\ [][NextClear]_vars

\* static nodes with ancestry, and layers handed to updateFromLayer
NextUpdate ==
    \/ EmplaceNode
    \/ RemoveNode
    \/ InsertEdge
    \/ UpdateFromLayer
SpecUpdate == Init /\ [][NextUpdate]_vars

\* nodes under two prefixes with edges between any two of them, and mergeNodes;
\* no node is removed, so every state is one insertEdge and mergeNodes made
NextRewire ==
    \/ EmplaceNode
    \/ EmplaceDynamicNodeWide
    \/ InsertEdgeWide
    \/ MergeNodesWide
SpecRewire == Init /\ [][NextRewire]_vars

\* -------------------------------------------------------------- claims
\* the keys of the layers g owns, and the ids each of them holds
LayerKeys(g) ==
    {StaticKey(l) : l \in {x \in DOMAIN g.layers_ : g.layers_[x].valid}}
        \cup {DynamicKey(k[1], k[2]) : k \in DOMAIN g.dynamic_layers_}
HeldBy(g, k) == DOMAIN layerFromKey(g, k).nodes
\* n is indexed and the layer its key names holds a node for it
InGraph(g, n) == hasNode(g, n) /\ getNodePtrStatus(g, n, g.node_lookup_[n]) = "ok"
NodeOf(g, n) == getNodePtr(g, n, g.node_lookup_[n])
GraphNodes(g) == {n \in DOMAIN g.node_lookup_ : InGraph(g, n)}

NodeIndexExact(g) ==
    /\ \A n \in DOMAIN g.node_lookup_ : InGraph(g, n)
    /\ \A k \in LayerKeys(g) : \A n \in HeldBy(g, k) :
           hasNode(g, n) /\ g.node_lookup_[n] = k

\* C1: after any sequence of public operations node_lookup_ is exactly the
\* union of the ids the static and dynamic layers hold, each id mapped to the
\* key of the one layer holding it: every indexed id has its node in the layer
\* its key names, and every id a layer holds is indexed under that layer's key
\* (so no id is held by two layers).
C1_NodeIndexIsUnionOfLayers == ~crashed => NodeIndexExact(G)

AncestryConsistent(g) ==
    \A n \in GraphNodes(g) :
        /\ hasParent(NodeOf(g, n)) =>
               /\ InGraph(g, NodeOf(g, n).parent)
               /\ n \in NodeOf(g, NodeOf(g, n).parent).children
        /\ \A c \in NodeOf(g, n).children : InGraph(g, c) /\ NodeOf(g, c).parent = n
        /\ \A b \in NodeOf(g, n).siblings : InGraph(g, b) /\ n \in NodeOf(g, b).siblings

\* C2: after any sequence of insertEdge, removeEdge, removeNode and mergeNodes
\* ancestry is consistent for all nodes of the graph: n has parent p iff p is
\* in the graph and p.children contains n, and a.siblings contains b iff b is
\* in the graph and b.siblings contains a.
C2_AncestryConsistent == ~crashed => AncestryConsistent(G)

InterlayerEdges(g) == g.interlayer_edges_ \cup g.dynamic_interlayer_edges_
StoredEdges(g) ==
    InterlayerEdges(g) \cup UNION {layerFromKey(g, k).edges : k \in LayerKeys(g)}
LayersHolding(g, e) == {k \in LayerKeys(g) : e \in layerFromKey(g, k).edges}
\* e is where the keys ka, kb of its endpoints say, and nowhere else
EdgeWellPlaced(g, e, ka, kb) ==
    IF KeyEq(ka, kb)
    THEN LayersHolding(g, e) = {ka} /\ e \notin InterlayerEdges(g)
    ELSE /\ LayersHolding(g, e) = {}
         /\ IF ka.dynamic \/ kb.dynamic
            THEN e \in g.dynamic_interlayer_edges_ /\ e \notin g.interlayer_edges_
            ELSE e \in g.interlayer_edges_ /\ e \notin g.dynamic_interlayer_edges_

\* C3: after any sequence of insertEdge, removeEdge, removeNode and mergeNodes
\* every stored edge whose endpoints are both indexed is in exactly one
\* container: the layer's own when the endpoints' keys are equal, else the
\* dynamic interlayer set when either key is dynamic and the static interlayer
\* set otherwise.
C3_EdgeInExactlyOneContainer ==
    ~crashed =>
        \A e \in StoredEdges(G) : \A a, b \in DOMAIN node_lookup_ :
            e = {a, b} => EdgeWellPlaced(G, e, node_lookup_[a], node_lookup_[b])

\* nothing in g refers to id any more
Unwound(g, id) ==
    /\ \A e \in InterlayerEdges(g) : id \notin e
    /\ \A k \in LayerKeys(g) : \A n \in HeldBy(g, k) :
           /\ layerFromKey(g, k).nodes[n].parent # id
           /\ id \notin layerFromKey(g, k).nodes[n].children
           /\ id \notin layerFromKey(g, k).nodes[n].siblings
    /\ \A x \in DOMAIN g.mesh_edges_ : g.mesh_edges_[x].source_node # id

\* C4: when removeNode(id) returns true no interlayer edge (static or dynamic)
\* has id as an endpoint, no remaining node has id as its parent, in its
\* children or in its siblings, and no mesh edge has id as its source node.
C4_RemoveNodeUnwindsReferences ==
    ~crashed =>
        \A id \in IdSet :
            removeNode(G, id).ret = "true" => Unwound(removeNode(G, id).g, id)

\* a is a node of a coarser layer than node b
Coarser(g, a, b) ==
    InGraph(g, a) /\ InGraph(g, b) /\ isParent(g.node_lookup_[a], g.node_lookup_[b])
\* the call returned true and made a the parent of b
MadeParent(r, a, b) ==
    /\ r.ret = "true"
    /\ NodeOf(r.g, b).parent = a
    /\ b \in NodeOf(r.g, a).children
\* the call on g returned false and left the three nodes and both edge sets alone
Refused(g, r, a, a2, b) ==
    /\ r.ret = "false"
    /\ \A x \in {a, a2, b} : InGraph(r.g, x) /\ NodeOf(r.g, x) = NodeOf(g, x)
    /\ r.g.interlayer_edges_ = g.interlayer_edges_
    /\ r.g.dynamic_interlayer_edges_ = g.dynamic_interlayer_edges_

\* C5: for any node b of a finer layer without a parent and any node a of a
\* coarser layer, insertEdge(a,b) and insertEdge(b,a) succeed with b.parent = a
\* and b in a.children; while b has a parent a, insertEdge with any other
\* coarser node a2 returns false and changes neither the ancestry of a, a2, b
\* nor an interlayer edge set.
C5_SingleParent ==
    ~crashed =>
        \A a, b \in IdSet : Coarser(G, a, b) =>
            /\ ~hasParent(NodeOf(G, b)) =>
                   MadeParent(insertEdge(G, a, b), a, b)
                       /\ MadeParent(insertEdge(G, b, a), a, b)
            /\ \A a2 \in IdSet \ {a} :
                   (NodeOf(G, b).parent = a /\ Coarser(G, a2, b)) =>
                       Refused(G, insertEdge(G, a2, b), a, a2, b)
                           /\ Refused(G, insertEdge(G, b, a2), a, a2, b)

\* the (node, vertex, edge id) triples of the store and of the two indices
StoreTriples(g) ==
    {<<g.mesh_edges_[i].source_node, g.mesh_edges_[i].mesh_vertex, i>> :
        i \in DOMAIN g.mesh_edges_}
ByNodeTriples(g) ==
    UNION {{<<n, v, g.mesh_edges_node_lookup_[n][v]>> :
               v \in DOMAIN g.mesh_edges_node_lookup_[n]} :
           n \in DOMAIN g.mesh_edges_node_lookup_}
ByVertexTriples(g) ==
    UNION {{<<n, v, g.mesh_edges_vertex_lookup_[v][n]>> :
               n \in DOMAIN g.mesh_edges_vertex_lookup_[v]} :
           v \in DOMAIN g.mesh_edges_vertex_lookup_}
MeshTablesConsistent(g) ==
    /\ ByNodeTriples(g) = StoreTriples(g)
    /\ ByVertexTriples(g) = StoreTriples(g)
    /\ Cardinality(ByNodeTriples(g)) = Cardinality(ByVertexTriples(g))
    /\ \A n \in DOMAIN g.mesh_edges_node_lookup_ :
           DOMAIN g.mesh_edges_node_lookup_[n] # {}
    /\ \A v \in DOMAIN g.mesh_edges_vertex_lookup_ :
           DOMAIN g.mesh_edges_vertex_lookup_[v] # {}

\* C6: after any sequence of insertMeshEdge, removeMeshEdge,
\* invalidateMeshVertex, setMesh, removeNode, mergeGraph and clear the mesh-edge
\* store, the by-node index and the by-vertex index hold the same (node,
\* vertex, edge id) triples, the two indices have equal cardinality and
\* neither keeps an empty entry.
C6_MeshTablesConsistent == ~crashed => MeshTablesConsistent(G)

\* two edges were inserted and one of them was removed again
C6_Witness ==
    /\ ~crashed
    /\ Cardinality(DOMAIN mesh_edges_) = 1
    /\ max_assigned_id >= 1
    /\ next_mesh_edge_idx_ > max_assigned_id + 1

\* the edges of g on a vertex below N, under their ids
EdgesBelow(g, N) ==
    [i \in {j \in DOMAIN g.mesh_edges_ : g.mesh_edges_[j].mesh_vertex < N} |->
        g.mesh_edges_[i]]
\* r: what setMesh(N vertices, faces, false) returned on g
RemovedExactlyBeyond(g, r, N) ==
    /\ r.ret = "true"
    /\ r.g.mesh_vertices_ = N
    /\ r.g.mesh_edges_ = EdgesBelow(g, N)
    /\ \A n \in IdSet, v \in VertexSet :
           hasMeshEdge(r.g, n, v) <=> (hasMeshEdge(g, n, v) /\ v < N)

\* C7: setMesh with a non-null mesh of N vertices and invalidate_all_edges =
\* false removes exactly the mesh edges on a vertex >= N: every edge on a
\* vertex < N is still there under the same id and no edge on a vertex >= N
\* remains.
C7_SetMeshRemovesExactlyInvalid ==
    ~crashed =>
        \A N \in 0..MaxMeshSize, has_faces \in BOOLEAN :
            RemovedExactlyBeyond(G, setMesh(G, N, has_faces, FALSE), N)

\* an edge on vertex 0 and one on vertex 1, and setMesh to one vertex keeps
\* the first only
C7_Witness ==
    /\ ~crashed
    /\ \E i, j \in DOMAIN mesh_edges_ :
           /\ mesh_edges_[i].mesh_vertex = 0
           /\ mesh_edges_[j].mesh_vertex = 1
           /\ DOMAIN setMesh(G, 1, TRUE, FALSE).g.mesh_edges_ = {i}

NoEdgeBeyondMesh(g) ==
    \A i \in DOMAIN g.mesh_edges_ :
        g.mesh_vertices_ # NoMesh /\ g.mesh_edges_[i].mesh_vertex < g.mesh_vertices_

\* C8: right after a call that replaces the mesh (setMesh with either flag
\* value, or setMeshDirectly) no stored mesh edge is on a vertex >= the new
\* mesh's vertex count, and none is left when the new mesh is null or empty.
C8_NoEdgeBeyondReplacedMesh ==
    ~crashed =>
        /\ \A N \in {NoMesh} \cup (0..MaxMeshSize), has_faces, invalidate \in BOOLEAN :
               NoEdgeBeyondMesh(setMesh(G, N, has_faces, invalidate).g)
        /\ \A N \in 0..MaxMeshSize : NoEdgeBeyondMesh(setMeshDirectly(G, N).g)

\* the id a successful insertMeshEdge(source, mesh_vertex) gave the edge
AssignedId(r, source, mesh_vertex) == r.g.mesh_edges_node_lookup_[source][mesh_vertex]

\* C9: mesh-edge ids are never reused: every successful insertMeshEdge assigns
\* an id greater than every id assigned before (max_assigned_id), and the ids
\* of the store are all below next_mesh_edge_idx_.
C9_MeshEdgeIdsNeverReused ==
    ~crashed =>
        /\ \A i \in DOMAIN mesh_edges_ : i < next_mesh_edge_idx_
        /\ max_assigned_id < next_mesh_edge_idx_
        /\ \A source \in IdSet, mesh_vertex \in VertexSet, allow \in BOOLEAN :
               insertMeshEdge(G, source, mesh_vertex, allow).ret = "true" =>
                   AssignedId(insertMeshEdge(G, source, mesh_vertex, allow),
                              source, mesh_vertex) > max_assigned_id

\* an edge was inserted and removed, and the next one got a later id
C9_Witness ==
    /\ ~crashed
    /\ DOMAIN mesh_edges_ = {max_assigned_id}
    /\ max_assigned_id >= 2

\* parent, children and siblings of every node a layer holds
AncestryFields(g) ==
    UNION {{<<k, n, layerFromKey(g, k).nodes[n]>> : n \in HeldBy(g, k)} :
           k \in LayerKeys(g)}
\* r: what removeNode returned after an insertion into g
Restored(g, r) ==
    /\ r.ret = "true"
    /\ r.g.node_lookup_ = g.node_lookup_
    /\ r.g.mesh_edges_ = g.mesh_edges_
    /\ r.g.mesh_edges_node_lookup_ = g.mesh_edges_node_lookup_
    /\ r.g.mesh_edges_vertex_lookup_ = g.mesh_edges_vertex_lookup_
    /\ AncestryFields(r.g) = AncestryFields(g)
\* the id the next dynamic emplaceNode on (layer, prefix) makes
NextDynamicId(g, layer, prefix) ==
    IF hasDynamicLayer(g, layer, prefix)
    THEN makeId(prefix, g.dynamic_layers_[<<layer, prefix>>].next_node_)
    ELSE makeId(prefix, 0)

\* C10: from every reachable state a successful emplaceNode or insertNode
\* (static layer) or dynamic emplaceNode (layer, prefix), followed at once by
\* removeNode of the new node, returns node_lookup_, the mesh-edge store, both
\* its indices and every node's parent/children/siblings to what they were.
C10_InsertThenRemoveRestores ==
    ~crashed =>
        /\ \A l \in LayerIdSet, n \in NodeIdSet :
               /\ emplaceNode(G, l, n).ret = "true" =>
                      Restored(G, removeNode(emplaceNode(G, l, n).g, n))
               /\ insertNode(G, FALSE, l, n).ret = "true" =>
                      Restored(G, removeNode(insertNode(G, FALSE, l, n).g, n))
        /\ \A l \in DynLayerIdSet, p \in PrefixSet, add_edge \in BOOLEAN :
               emplaceDynamicNode(G, l, p, add_edge).ret = "true" =>
                   Restored(G, removeNode(emplaceDynamicNode(G, l, p, add_edge).g,
                                          NextDynamicId(G, l, p)))

\* what mergeGraph is to leave alone the second time: the index, every layer's
\* own edges, both interlayer sets, every node's ancestry, the mesh pairs
IntraLayerEdges(g) ==
    UNION {{<<k, e>> : e \in layerFromKey(g, k).edges} : k \in LayerKeys(g)}
MeshPairs(g) ==
    {<<g.mesh_edges_[i].source_node, g.mesh_edges_[i].mesh_vertex>> :
        i \in DOMAIN g.mesh_edges_}
Structure(g) ==
    [nodes |-> g.node_lookup_, edges |-> IntraLayerEdges(g),
     interlayer |-> g.interlayer_edges_, dynamic |-> g.dynamic_interlayer_edges_,
     ancestry |-> AncestryFields(g), mesh |-> MeshPairs(g)]
\* r1: what the first mergeGraph returned; the same call is made on its graph
MergedTwiceAsOnce(r1, other, allow_invalid_mesh, clear_mesh_edges) ==
    r1.ret = "true" =>
        /\ mergeGraph(r1.g, other, allow_invalid_mesh, clear_mesh_edges).ret = "true"
        /\ Structure(mergeGraph(r1.g, other, allow_invalid_mesh, clear_mesh_edges).g)
               = Structure(r1.g)
MergeInputs == OtherGraphs \cup OtherWithMoved

\* C11: mergeGraph is idempotent on structure: for every reachable target and
\* every other graph, a second mergeGraph with the same arguments leaves
\* node_lookup_, the layers' own edges, both interlayer sets, every node's
\* parent/children/siblings and the mesh (node, vertex) pairs as the first
\* call left them.
C11_MergeGraphIdempotent ==
    ~crashed =>
        \A other \in MergeInputs, allow_invalid_mesh, clear_mesh_edges \in BOOLEAN :
            MergedTwiceAsOnce(mergeGraph(G, other, allow_invalid_mesh, clear_mesh_edges),
                              other, allow_invalid_mesh, clear_mesh_edges)

\* r1: the first merge of a graph with one interlayer edge into a graph that
\* had none; it brought the edge and its ancestry, and the second changes nothing
BroughtEdgeOnce(r1, other) ==
    /\ r1.ret = "true"
    /\ r1.g.interlayer_edges_ = other.interlayer_edges
    /\ \E e \in r1.g.interlayer_edges_ : \E n \in e :
           InGraph(r1.g, n) /\ hasParent(NodeOf(r1.g, n))
    /\ Structure(mergeGraph(r1.g, other, FALSE, FALSE).g) = Structure(r1.g)
C11_Witness ==
    /\ ~crashed
    /\ interlayer_edges_ = {}
    /\ dynamic_interlayer_edges_ # {}
    /\ \E other \in OtherWithEdge :
           BroughtEdgeOnce(mergeGraph(G, other, FALSE, FALSE), other)

\* mergeNodes has to refuse the pair
Unmergeable(g, from, to) ==
    \/ ~hasNode(g, from)
    \/ ~hasNode(g, to)
    \/ from = to
    \/ g.node_lookup_[from] # g.node_lookup_[to]

\* C12: mergeNodes(from, to) returns false and leaves the whole graph as it
\* was when from or to is not in node_lookup_, when from = to, or when the two
\* nodes' keys differ in the layer, the dynamic flag or the prefix.
C12_MergeNodesRefusesUnmergeable ==
    ~crashed =>
        \A from, to \in WideIdSet :
            Unmergeable(G, from, to) => mergeNodes(G, from, to) = No(G)

\* two dynamic nodes of one layer id under different prefixes are refused
C12_Witness ==
    /\ ~crashed
    /\ \E from, to \in DOMAIN node_lookup_ :
           /\ node_lookup_[from].dynamic /\ node_lookup_[to].dynamic
           /\ node_lookup_[from].layer = node_lookup_[to].layer
           /\ node_lookup_[from].prefix # node_lookup_[to].prefix
           /\ mergeNodes(G, from, to) = No(G)

\* from and to are distinct nodes of one dynamic layer instance
SameDynamicLayer(g, from, to) ==
    /\ hasNode(g, from) /\ hasNode(g, to) /\ from # to
    /\ g.node_lookup_[from].dynamic
    /\ g.node_lookup_[from] = g.node_lookup_[to]
\* r: what mergeNodes returned on g: a plain refusal that kept the dynamic
\* layers, the index and the set of static layers
RefusedDynamicMerge(g, r) ==
    /\ r.ret = "false"
    /\ r.g.dynamic_layers_ = g.dynamic_layers_
    /\ r.g.node_lookup_ = g.node_lookup_
    /\ DOMAIN r.g.layers_ = DOMAIN g.layers_

\* C13: mergeNodes(from, to) on two distinct nodes of the same dynamic layer
\* instance (same layer and prefix) returns false (it neither throws nor makes
\* an invalid access) and leaves the dynamic layers' nodes, node_lookup_ and
\* the set of static layers unchanged.
C13_DynamicMergeIsRefused ==
    ~crashed =>
        \A from, to \in WideIdSet :
            SameDynamicLayer(G, from, to) =>
                RefusedDynamicMerge(G, mergeNodes(G, from, to))

\* r: what a static emplaceNode or insertNode of id n into layer l returned on g
AddedOrRefused(g, r, l, n) ==
    IF l \notin layer_ids \/ hasNode(g, n)
    THEN r = No(g)
    ELSE /\ r.ret = "true"
         /\ DOMAIN r.g.layers_ = DOMAIN g.layers_
         /\ LayerHasNode(r.g.layers_[l], n)
         /\ r.g.node_lookup_ = Put(g.node_lookup_, n, StaticKey(l))

\* C14: static emplaceNode(layer, id) and insertNode(node) return false and
\* leave the graph unchanged, the set of static layers included, when the layer
\* is not a configured static layer or the id is already in node_lookup_ under
\* any layer; otherwise they add the node to that layer and register id ->
\* layer in node_lookup_.
C14_StaticInsertAddsOrRefuses ==
    ~crashed =>
        \A l \in LayerIdSet, n \in NodeIdSet :
            /\ AddedOrRefused(G, emplaceNode(G, l, n), l, n)
            /\ AddedOrRefused(G, insertNode(G, FALSE, l, n), l, n)

\* r: what the dynamic emplaceNode on (layer, prefix) returned on g, id being
\* the id it derived
RegisteredOrRefused(g, r, layer, prefix, id) ==
    IF hasNode(g, id)
    THEN r = No(g)
    ELSE r.ret = "true" =>
             /\ hasDynamicLayer(r.g, layer, prefix)
             /\ LayerHasNode(r.g.dynamic_layers_[<<layer, prefix>>], id)
             /\ r.g.node_lookup_ = Put(g.node_lookup_, id, DynamicKey(layer, prefix))

\* C15: the dynamic emplaceNode(layer, prefix, ...) derives the id
\* prefix.makeId(next sequence of the instance, 0 without an instance); when
\* that id is already in node_lookup_ (under a static layer or another dynamic
\* instance) the call returns false and changes nothing, so it does not create
\* the (layer, prefix) instance; on success the id is in node_lookup_ under the
\* dynamic key (layer, prefix).
C15_DynamicEmplaceRegistersOrRefuses ==
    ~crashed =>
        \A layer \in DynLayerIdSet, prefix \in WidePrefixSet, add_edge \in BOOLEAN :
            RegisteredOrRefused(G, emplaceDynamicNode(G, layer, prefix, add_edge),
                                layer, prefix, NextDynamicId(G, layer, prefix))

\* the first id of a prefix is taken by a node of another layer, there is no
\* instance yet, and the call is refused without making one
C15_Witness ==
    /\ ~crashed
    /\ \E layer \in DynLayerIdSet, prefix \in WidePrefixSet :
           /\ ~hasDynamicLayer(G, layer, prefix)
           /\ hasNode(G, makeId(prefix, 0))
           /\ dynamic_layers_ # EmptyMap
           /\ emplaceDynamicNode(G, layer, prefix, TRUE) = No(G)

\* the instance (layer, prefix) of g holds the node before the next in sequence
HoldsPrevious(g, layer, prefix) ==
    /\ hasDynamicLayer(g, layer, prefix)
    /\ g.dynamic_layers_[<<layer, prefix>>].next_node_ > 0
    /\ LayerHasNode(g.dynamic_layers_[<<layer, prefix>>], NextDynamicId(g, layer, prefix) - 1)
\* r: what the dynamic emplaceNode with the link returned on g; id: the new node
LinkedInOwnLayer(g, r, layer, prefix, id) ==
    r.ret = "true" =>
        /\ {id - 1, id} \in r.g.dynamic_layers_[<<layer, prefix>>].edges
        /\ hasEdge(r.g, id - 1, id).ret = "true"
        /\ r.g.interlayer_edges_ = g.interlayer_edges_
        /\ r.g.dynamic_interlayer_edges_ = g.dynamic_interlayer_edges_
        /\ AncestryFields(r.g) =
               AncestryFields(g) \cup {<<DynamicKey(layer, prefix), id, NewNode>>}

\* C16: when a dynamic emplaceNode with link_to_previous = true succeeds on a
\* (layer, prefix) instance that holds the previous node of the sequence, the
\* edge from the previous node to the new one is in that dynamic layer's own
\* edge container (hasEdge finds it there), and both interlayer edge sets and
\* the parent/children/siblings of every node are as before, the new node
\* having none.
C16_LinkStaysInsideDynamicLayer ==
    ~crashed =>
        \A layer \in DynLayerIdSet, prefix \in PrefixSet :
            HoldsPrevious(G, layer, prefix) =>
                LinkedInOwnLayer(G, emplaceDynamicNode(G, layer, prefix, TRUE),
                                 layer, prefix, NextDynamicId(G, layer, prefix))

\* the first dynamic node has a sibling outside its layer and the second one
\* can be linked to it
C16_Witness ==
    /\ ~crashed
    /\ dynamic_interlayer_edges_ # {}
    /\ \E layer \in DynLayerIdSet, prefix \in PrefixSet :
           /\ HoldsPrevious(G, layer, prefix)
           /\ NodeOf(G, NextDynamicId(G, layer, prefix) - 1).siblings # {}
           /\ emplaceDynamicNode(G, layer, prefix, TRUE).ret = "true"

\* C17: the set of static layers is fixed at construction: after any sequence
\* of public operations (insertNode of a node of the mesh layer id while a mesh
\* is set, mergeNodes, mergeGraph of a graph with a static layer of this
\* graph's mesh layer id included) the keys of layers_ are exactly layer_ids
\* and every entry is a layer, not a null pointer.
C17_StaticLayersFixed ==
    /\ DOMAIN layers_ = layer_ids
    /\ \A l \in DOMAIN layers_ : layers_[l].valid

\* g is configured and empty
ConfiguredEmpty(g) ==
    /\ g.node_lookup_ = EmptyMap
    /\ numNodes(g) = 0
    /\ numEdges(g) = 0
    /\ g.dynamic_layers_ = EmptyMap
    /\ g.mesh_vertices_ = NoMesh /\ ~g.mesh_faces_ /\ ~hasMesh(g)
    /\ g.interlayer_edges_ = {} /\ g.dynamic_interlayer_edges_ = {}
    /\ g.mesh_edges_ = EmptyMap
    /\ g.mesh_edges_node_lookup_ = EmptyMap
    /\ g.mesh_edges_vertex_lookup_ = EmptyMap
    /\ g.layers_ = [id \in layer_ids |-> NewLayer]

\* C18: from any reachable state clear() returns the graph to the configured
\* but empty state: node_lookup_ is empty, numNodes() and numEdges() are 0,
\* there is no dynamic layer and no mesh, both interlayer edge sets and the
\* three mesh-edge tables are empty, and exactly the configured static layers
\* exist, each empty.
C18_ClearResets == ~crashed => clear(G).ret = "true" /\ ConfiguredEmpty(clear(G).g)

\* static and dynamic nodes, interlayer edges, a mesh and a mesh edge are
\* there to be cleared
C18_Witness ==
    /\ ~crashed
    /\ dynamic_layers_ # EmptyMap
    /\ dynamic_interlayer_edges_ # {}
    /\ hasMesh(G) /\ mesh_edges_ # EmptyMap
    /\ numNodes(G) > 2 /\ numEdges(G) > 2
    /\ ConfiguredEmpty(clear(G).g)

\* node n of layer l is in r.g as it was in g, with the edges it had there
KeptInLayer(g, r, l, n) ==
    /\ LayerHasNode(r.g.layers_[l], n)
    /\ r.g.layers_[l].nodes[n] = g.layers_[l].nodes[n]
    /\ {e \in g.layers_[l].edges : n \in e} \subseteq r.g.layers_[l].edges
\* node n came into layer l: indexed under l and stamped new
Adopted(r, l, n, stamped) ==
    /\ LayerHasNode(r.g.layers_[l], n)
    /\ hasNode(r.g, n) /\ r.g.node_lookup_[n] = StaticKey(l)
    /\ n \in stamped
\* r: what updateFromLayer(other_layer, edges) returned on g; after: other_layer
\* after the call; stamped: the ids marked new
UpdatedFromLayer(g, r, other_layer, after, stamped) ==
    IF other_layer.id \in layer_ids
    THEN /\ r.ret = "true"
         /\ after.nodes = {}
         /\ r.g.interlayer_edges_ = g.interlayer_edges_
         /\ r.g.dynamic_interlayer_edges_ = g.dynamic_interlayer_edges_
         /\ \A n \in other_layer.nodes :
                IF LayerHasNode(g.layers_[other_layer.id], n)
                THEN KeptInLayer(g, r, other_layer.id, n)
                ELSE Adopted(r, other_layer.id, n, stamped)
    ELSE r = No(g) /\ after = other_layer

\* C19: updateFromLayer(other_layer, edges) on a configured layer: a node id
\* of other_layer that the target layer already holds keeps its intra-layer
\* edges, the interlayer edges and its parent/children/siblings; a node id the
\* target layer lacks ends up in the target layer, in node_lookup_ under that
\* layer and marked new; other_layer is empty afterwards.  On a layer that is
\* not configured the call returns false and changes nothing.
C19_UpdateFromLayerKeepsOrAdopts ==
    ~crashed =>
        \A other_layer \in OtherLayers, edges \in EdgeSets :
            UpdatedFromLayer(G, updateFromLayer(G, other_layer, edges), other_layer,
                             updateFromLayerOther(G, other_layer),
                             updateFromLayerNew(G, other_layer))

\* a node with a parent is updated in place
C19_Witness ==
    /\ ~crashed
    /\ \E other_layer \in OtherLayers : \E n \in other_layer.nodes :
           /\ other_layer.id \in layer_ids
           /\ LayerHasNode(layers_[other_layer.id], n)
           /\ hasParent(layers_[other_layer.id].nodes[n])
           /\ updateFromLayer(G, other_layer, {}).ret = "true"

\* no layer of g holds id and nothing of g refers to it
Absent(g, id) ==
    /\ ~hasNode(g, id)
    /\ \A k \in LayerKeys(g) : id \notin HeldBy(g, k)
    /\ Unwound(g, id)
\* the ids the static layers of other hold
OtherNodes(other) == UNION {other.layers[l].nodes : l \in DOMAIN other.layers}
\* r: what mergeGraph(other, ...) returned on g; an id other reports removed
\* and holds again in another layer is left out
RemovedAndSkipped(g, r, other) ==
    /\ r.ret = "true"
    /\ DOMAIN r.g.layers_ = DOMAIN g.layers_
    /\ \A l \in DOMAIN other.layers :
           IF l \in DOMAIN g.layers_
           THEN \A n \in other.layers[l].removed \ OtherNodes(other) : Absent(r.g, n)
           ELSE \A n \in other.layers[l].nodes : ~hasNode(g, n) => Absent(r.g, n)

\* C20: after mergeGraph(other, ...) returns, every node id that a static
\* layer of other which also exists locally reports as removed is absent from
\* the local graph, and so are the interlayer edges, the ancestry references
\* and the mesh edges of that node; a static layer of other that does not
\* exist locally is skipped and brings no node, and mergeGraph still returns
\* true.
C20_MergeRemovesReportedAndSkipsUnknown ==
    ~crashed =>
        \A other \in MergeInputs, allow_invalid_mesh, clear_mesh_edges \in BOOLEAN :
            RemovedAndSkipped(G, mergeGraph(G, other, allow_invalid_mesh, clear_mesh_edges),
                              other)

\* both ids are nodes of static layers
BothStatic(g, from, to) ==
    /\ InGraph(g, from) /\ InGraph(g, to)
    /\ ~g.node_lookup_[from].dynamic /\ ~g.node_lookup_[to].dynamic
\* no interlayer edge and no ancestry field of a node of g refers to id
NoAncestryOf(g, id) ==
    /\ \A e \in InterlayerEdges(g) : id \notin e
    /\ \A k \in LayerKeys(g) : \A n \in HeldBy(g, k) :
           /\ layerFromKey(g, k).nodes[n].parent # id
           /\ id \notin layerFromKey(g, k).nodes[n].children
           /\ id \notin layerFromKey(g, k).nodes[n].siblings
\* c, a child of from in g, is a child of to in r.g
ChildMoved(r, c, to) ==
    /\ InGraph(r.g, c) /\ InGraph(r.g, to)
    /\ NodeOf(r.g, c).parent = to
    /\ c \in NodeOf(r.g, to).children
    /\ {c, to} \in InterlayerEdges(r.g)
\* p, the parent of from in g, is the parent of to in r.g
ParentMoved(r, p, from, to) ==
    /\ InGraph(r.g, p) /\ InGraph(r.g, to)
    /\ NodeOf(r.g, to).parent = p
    /\ to \in NodeOf(r.g, p).children
    /\ from \notin NodeOf(r.g, p).children
    /\ {to, p} \in InterlayerEdges(r.g)
\* r: what mergeNodes(from, to) returned on g
MergedInto(g, r, from, to) ==
    /\ ~hasNode(r.g, from)
    /\ \A k \in LayerKeys(r.g) : from \notin HeldBy(r.g, k)
    /\ \A c \in NodeOf(g, from).children : ChildMoved(r, c, to)
    /\ hasParent(NodeOf(g, from)) => ParentMoved(r, NodeOf(g, from).parent, from, to)
    /\ NoAncestryOf(r.g, from)

\* C21: after mergeNodes(from, to) returns true for two static-layer nodes,
\* from is absent from node_lookup_ and from its layer; every former child of
\* from has parent to, is in to.children and has an interlayer edge to to; if
\* from had a parent p then to.parent = p, p.children holds to and not from and
\* the interlayer edge {to, p} exists; and no interlayer edge and no parent,
\* children or siblings field of a remaining node refers to from.
C21_MergeNodesRewiresAncestry ==
    ~crashed =>
        \A from, to \in WideIdSet :
            (BothStatic(G, from, to) /\ mergeNodes(G, from, to).ret = "true") =>
                MergedInto(G, mergeNodes(G, from, to), from, to)

\* an interlayer edge {source, target} is stored where its keys say, and the
\* call names another pair of nodes of different keys
RewireCase(g, source, target, new_source, new_target) ==
    /\ \A x \in {source, target, new_source, new_target} : InGraph(g, x)
    /\ ~(source = new_source /\ target = new_target)
    /\ ~KeyEq(g.node_lookup_[source], g.node_lookup_[target])
    /\ ~KeyEq(g.node_lookup_[new_source], g.node_lookup_[new_target])
    /\ Contains(g, g.node_lookup_[source].dynamic \/ g.node_lookup_[target].dynamic,
                source, target)
\* no ancestry field of a or b names the other
Unrelated(g, a, b) ==
    /\ NodeOf(g, a).parent # b /\ NodeOf(g, b).parent # a
    /\ b \notin NodeOf(g, a).children /\ a \notin NodeOf(g, b).children
    /\ b \notin NodeOf(g, a).siblings /\ a \notin NodeOf(g, b).siblings
\* the new pair had no edge: the old edge left its set, the new one is in the
\* set the new keys select and not in the other
EdgeMoved(g, r, source, target, new_source, new_target, old_dynamic, new_dynamic) ==
    /\ r.ret = "true"
    /\ ~Contains(r.g, old_dynamic, source, target)
    /\ Contains(r.g, new_dynamic, new_source, new_target)
    /\ ~Contains(r.g, ~new_dynamic, new_source, new_target)
\* the new pair had an edge: the old edge and its ancestry are gone, no edge is new
EdgeDropped(g, r, source, target, old_dynamic) ==
    /\ r.ret = "true"
    /\ ~Contains(r.g, old_dynamic, source, target)
    /\ Unrelated(r.g, source, target)
    /\ r.g.interlayer_edges_ \subseteq g.interlayer_edges_
    /\ r.g.dynamic_interlayer_edges_ \subseteq g.dynamic_interlayer_edges_
\* r: what rewireInterlayerEdge returned on g
Rewired(g, r, source, target, new_source, new_target) ==
    IF hasEdge(g, new_source, new_target).ret = "false"
    THEN EdgeMoved(g, r, source, target, new_source, new_target,
                   g.node_lookup_[source].dynamic \/ g.node_lookup_[target].dynamic,
                   g.node_lookup_[new_source].dynamic
                       \/ g.node_lookup_[new_target].dynamic)
    ELSE EdgeDropped(g, r, source, target,
                     g.node_lookup_[source].dynamic \/ g.node_lookup_[target].dynamic)

\* C22: for any rewireInterlayerEdge(old_source, old_target, new_source,
\* new_target) on a stored interlayer edge: when the new pair has no edge yet
\* the old edge is removed from its set and the new edge is stored in the
\* dynamic interlayer set iff the key of new_source or of new_target is
\* dynamic, and in the static set otherwise; when the new pair already has an
\* edge the old edge and its ancestry are dropped and no edge is created.
C22_RewireStoresByNewKeys ==
    ~crashed =>
        \A source, target, new_source, new_target \in WideIdSet :
            RewireCase(G, source, target, new_source, new_target) =>
                Rewired(G, rewireInterlayerEdge(G, source, target, new_source, new_target),
                        source, target, new_source, new_target)

\* the ancestry isParent on the two keys asks for is recorded on u and v
RelatedByKeys(g, u, v) ==
    IF isParent(g.node_lookup_[u], g.node_lookup_[v])
    THEN NodeOf(g, v).parent = u /\ v \in NodeOf(g, u).children
    ELSE IF isParent(g.node_lookup_[v], g.node_lookup_[u])
    THEN NodeOf(g, u).parent = v /\ u \in NodeOf(g, v).children
    ELSE v \in NodeOf(g, u).siblings /\ u \in NodeOf(g, v).siblings
\* the interlayer edges from n to nodes of coarser layers
EdgesToCoarser(g, n) ==
    {e \in InterlayerEdges(g) :
        n \in e /\ \E p \in e \ {n} : Coarser(g, p, n)}
EdgesMatchAncestry(g) ==
    /\ \A e \in InterlayerEdges(g) : \A u, v \in e :
           u # v => InGraph(g, u) /\ InGraph(g, v) /\ RelatedByKeys(g, u, v)
    /\ \A n \in GraphNodes(g) :
           /\ hasParent(NodeOf(g, n)) => {n, NodeOf(g, n).parent} \in InterlayerEdges(g)
           /\ \A c \in NodeOf(g, n).children : {n, c} \in InterlayerEdges(g)
           /\ \A b \in NodeOf(g, n).siblings : {n, b} \in InterlayerEdges(g)
           /\ Cardinality(EdgesToCoarser(g, n)) <= 1

\* C23: after any sequence of insertEdge, removeEdge, removeNode, mergeNodes
\* and mergeGraph interlayer edges and ancestry correspond one to one: both
\* endpoints of every static or dynamic interlayer edge are in node_lookup_
\* and are parent and child (listed in children) or mutual siblings, as
\* isParent on their keys decides; every parent, child or sibling recorded on
\* a node has a stored interlayer edge; and no node is an endpoint of two
\* interlayer edges to nodes of coarser layers.
C23_EdgesMatchAncestry == ~crashed => EdgesMatchAncestry(G)

\* the source node of every mesh edge g stores is a node g indexes
MeshEdgeSourcesIndexed(g) ==
    \A x \in DOMAIN g.mesh_edges_ : hasNode(g, g.mesh_edges_[x].source_node)

\* C24: after any sequence of insertMeshEdge, removeMeshEdge, removeNode,
\* mergeNodes, mergeGraph and updateFromLayer the source node of every stored
\* mesh edge is in node_lookup_: no mesh edge outlives its node, the node
\* merged away by mergeNodes included.
C24_NoMeshEdgeOutlivesItsNode == ~crashed => MeshEdgeSourcesIndexed(G)
====
